---- MODULE Spec2Model ----
(***************************************************************************)
(* Model of bot.py: the Soteria statistics bot.  Every five minutes the    *)
(* bot fetches five values (three node RPC calls, a supply endpoint, a     *)
(* market-data endpoint), formats them, and writes them into the names of  *)
(* eight voice channels of the category "Soteria Server Stats" of every    *)
(* guild it belongs to.                                                    *)
(*                                                                         *)
(* Text is modelled as a sequence of one-character strings, so that norm,  *)
(* startswith and the f-string formats are computed character by           *)
(* character.  Python values are records tagged by their type in field t.  *)
(***************************************************************************)
EXTENDS Integers, Sequences, FiniteSets, TLC

(***************************************************************************)
(* Text                                                                    *)
(***************************************************************************)
\* str.lower(), letter by letter
LowerOf ==
    [A |-> "a", B |-> "b", C |-> "c", D |-> "d", E |-> "e", F |-> "f", G |-> "g",
     H |-> "h", I |-> "i", J |-> "j", K |-> "k", L |-> "l", M |-> "m", N |-> "n",
     O |-> "o", P |-> "p", Q |-> "q", R |-> "r", S |-> "s", T |-> "t", U |-> "u",
     V |-> "v", W |-> "w", X |-> "x", Y |-> "y", Z |-> "z"]
UpperLetters == DOMAIN LowerOf

LowerChar(c) == IF c \in UpperLetters THEN LowerOf[c] ELSE c

\* the whitespace characters str.strip() removes (the ones the model uses)
StripSet == {" ", "\t", "\n"}

RECURSIVE LStrip(_)
LStrip(s) == IF s # <<>> /\ Head(s) \in StripSet THEN LStrip(Tail(s)) ELSE s

RECURSIVE RStrip(_)
RStrip(s) ==
    IF s # <<>> /\ s[Len(s)] \in StripSet THEN RStrip(SubSeq(s, 1, Len(s) - 1)) ELSE s

\* bot.py norm: s.lower().replace(" ", "").strip()
norm(s) ==
    LET low == [i \in 1..Len(s) |-> LowerChar(s[i])]
        nosp == SelectSeq(low, LAMBDA c : c # " ")
    IN  RStrip(LStrip(nosp))

\* str.startswith
StartsWith(s, p) == Len(p) <= Len(s) /\ SubSeq(s, 1, Len(p)) = p

NA == <<"N","/","A">>

\* the keys in the order update_stats_channels reconciles them
KeyOrder ==
    <<"members", "difficulty_soterg", "hashrate_soterg", "block",
      "supply", "price", "volume_24h", "market_cap">>

Keys == {KeyOrder[i] : i \in 1..Len(KeyOrder)}

\* bot.py CHANNEL_KEYS: key -> label prefix
CHANNEL_KEYS_nested(key) ==
    IF key = "members" THEN <<"M","e","m","b","e","r","s",":">>
    ELSE <<"M","e","m","b","e","r","s",":"," ">> \o <<key, ":">>
CHANNEL_KEYS(key) ==
    IF key = "members" THEN <<"M","e","m","b","e","r","s",":">> ELSE
    IF key = "difficulty_soterg" THEN <<"D","i","f","f","i","c","u","l","t","y"," ","(","S","o","t","e","r","G",")",":">> ELSE
    IF key = "hashrate_soterg" THEN <<"H","a","s","h","r","a","t","e"," ","(","S","o","t","e","r","G",")",":"," ","G","H","/","s">> ELSE
    IF key = "block" THEN <<"B","l","o","c","k",":">> ELSE
    IF key = "supply" THEN <<"S","u","p","p","l","y",":">> ELSE
    IF key = "price" THEN <<"P","r","i","c","e",":">> ELSE
    IF key = "volume_24h" THEN <<"2","4","h"," ","V","o","l","u","m","e",":"," ","$">> ELSE
    (* market_cap *)          <<"M","a","r","k","e","t"," ","C","a","p",":"," ","$">>

(***************************************************************************)
(* Python values.  None, bool, int, float, str, list, dict.                *)
(* An int is g * 10^9 + v (g = 0 for the ints that fit one machine word of *)
(* TLC; Python ints are unbounded).  A float is the finite decimal         *)
(* m / 10^s, s >= 1 being the digits after the point in its repr.          *)
(***************************************************************************)
None == [t |-> "none"]
PyBool(b) == [t |-> "bool", v |-> b]
PyInt(n) == [t |-> "int", g |-> 0, v |-> n]
PyBig(giga, rest) == [t |-> "int", g |-> giga, v |-> rest]
PyFloat(mant, scale) == [t |-> "float", m |-> mant, s |-> scale]
PyStr(s) == [t |-> "str", v |-> s]
PyList(items) == [t |-> "list", v |-> items]
PyDict(f) == [t |-> "dict", v |-> f]
EmptyDict == PyDict(<<>>)

\* the value an exception leaves in place of a result
Raised == [t |-> "raised"]

\* truth value of a Python object (bool(x)), as `or` tests it
Truthy(x) ==
    CASE x.t = "none"  -> FALSE
      [] x.t = "bool"  -> x.v
      [] x.t = "int"   -> x.g # 0 \/ x.v # 0
      [] x.t = "float" -> x.m # 0
      [] x.t = "str"   -> x.v # <<>>
      [] x.t = "list"  -> x.v # <<>>
      [] x.t = "dict"  -> DOMAIN x.v # {}
      [] OTHER         -> TRUE

\* x or y
PyOr(x, y) == IF Truthy(x) THEN x ELSE y

\* isinstance(x, (int, float)); bool is a subclass of int
IsNumber(x) == x.t \in {"int", "float", "bool"}

\* dict.get(key), defined on dicts only
DictGet(d, key) == IF key \in DOMAIN d.v THEN d.v[key] ELSE None

(***************************************************************************)
(* Number formatting, on decimal digit strings so that no intermediate     *)
(* value outgrows the integers of TLC.                                     *)
(***************************************************************************)
Digit == <<"0","1","2","3","4","5","6","7","8","9">>
DigitVal(c) == (CHOOSE i \in 1..10 : Digit[i] = c) - 1
DigitChars == {Digit[i] : i \in 1..10}

Abs(n) == IF n < 0 THEN -n ELSE n

\* decimal digits of a natural number
RECURSIVE NatStr(_)
NatStr(n) == IF n < 10 THEN <<Digit[n + 1]>> ELSE NatStr(n \div 10) \o <<Digit[(n % 10) + 1]>>

\* a natural number as exactly w digits (leading zeros)
RECURSIVE PadStr(_, _)
PadStr(n, w) == IF w = 0 THEN <<>> ELSE PadStr(n \div 10, w - 1) \o <<Digit[(n % 10) + 1]>>

Zeros(n) == [i \in 1..n |-> "0"]

\* the "," option of the format mini-language: groups of three from the right
RECURSIVE Group3(_)
Group3(ds) ==
    IF Len(ds) <= 3 THEN ds
    ELSE Group3(SubSeq(ds, 1, Len(ds) - 3)) \o <<",">> \o SubSeq(ds, Len(ds) - 2, Len(ds))

\* a number is sign, digit string and scale: (+/-) digits / 10^scale
IsNeg(x) ==
    CASE x.t = "int"   -> x.v < 0
      [] x.t = "float" -> x.m < 0
      [] OTHER         -> FALSE

Digits(x) ==
    CASE x.t = "int"   -> IF x.g > 0 THEN NatStr(x.g) \o PadStr(x.v, 9) ELSE NatStr(Abs(x.v))
      [] x.t = "float" -> NatStr(Abs(x.m))
      [] x.t = "bool"  -> IF x.v THEN <<"1">> ELSE <<"0">>

Scale(x) == IF x.t = "float" THEN x.s ELSE 0

\* digit string + 1
RECURSIVE Inc(_)
Inc(ds) ==
    IF ds = <<>> THEN <<"1">>
    ELSE IF ds[Len(ds)] = "9" THEN Inc(SubSeq(ds, 1, Len(ds) - 1)) \o <<"0">>
    ELSE SubSeq(ds, 1, Len(ds) - 1) \o <<Digit[DigitVal(ds[Len(ds)]) + 2]>>

\* drop the last k digits of ds, rounding half to even (the model's inputs
\* avoid exact halves, where the float's binary value decides in Python)
DropRound(ds, k) ==
    LET keep == SubSeq(ds, 1, Len(ds) - k)
        cut == SubSeq(ds, Len(ds) - k + 1, Len(ds))
        first == DigitVal(cut[1])
        restZero == \A i \in 2..Len(cut) : cut[i] = "0"
        lastOdd == keep # <<>> /\ DigitVal(keep[Len(keep)]) % 2 = 1
        up == first > 5 \/ (first = 5 /\ ~restZero) \/ (first = 5 /\ restZero /\ lastOdd)
    IN  IF up THEN Inc(keep) ELSE keep

RECURSIVE StripZeros(_)
StripZeros(ds) == IF Len(ds) > 1 /\ Head(ds) = "0" THEN StripZeros(Tail(ds)) ELSE ds

\* the fixed-point presentation type: (+/-) ds / 10^sc to d decimals, as
\* f"{x:.{d}f}" or, grouped, f"{x:,.{d}f}"
Fixed(neg, ds, sc, d, grouped) ==
    LET wide == IF Len(ds) < sc + 1 THEN Zeros(sc + 1 - Len(ds)) \o ds ELSE ds
        all == IF sc <= d THEN wide \o Zeros(d - sc) ELSE DropRound(wide, sc - d)
        padded == IF Len(all) < d + 1 THEN Zeros(d + 1 - Len(all)) \o all ELSE all
        ip == StripZeros(SubSeq(padded, 1, Len(padded) - d))
        fp == SubSeq(padded, Len(padded) - d + 1, Len(padded))
    IN  (IF neg THEN <<"-">> ELSE <<>>)
        \o (IF grouped THEN Group3(ip) ELSE ip)
        \o (IF d = 0 THEN <<>> ELSE <<".">> \o fp)

\* f"{x:.{d}f}" / f"{x:,.{d}f}" of a number x
FormatFixed(x, d, grouped) == Fixed(IsNeg(x), Digits(x), Scale(x), d, grouped)

\* f"{x/1e9:,.{d}f}" and f"{x/1_000_000_000:,.{d}f}" of a number x
FormatGigaGiga(x, d) == Fixed(IsNeg(x), Digits(x), Scale(x) + 18, d, TRUE)
FormatGiga(x, d) == Fixed(IsNeg(x), Digits(x), Scale(x) + 9, d, TRUE)

\* repr of a float (the plain form Python uses for 1e-4 <= |x| < 1e16)
FloatText(x, grouped) ==
    LET wide == IF Len(Digits(x)) < x.s + 1 THEN Zeros(x.s + 1 - Len(Digits(x))) \o Digits(x)
                ELSE Digits(x)
        ip == SubSeq(wide, 1, Len(wide) - x.s)
    IN  (IF IsNeg(x) THEN <<"-">> ELSE <<>>)
        \o (IF grouped THEN Group3(ip) ELSE ip)
        \o <<".">> \o SubSeq(wide, Len(wide) - x.s + 1, Len(wide))

\* str(n) and f"{n:,}" of an int
IntStr(x) == (IF IsNeg(x) THEN <<"-">> ELSE <<>>) \o Digits(x)
IntComma(x) == (IF IsNeg(x) THEN <<"-">> ELSE <<>>) \o Group3(Digits(x))

\* str(x), as an f-string without a format spec renders x
RECURSIVE Str(_)
RECURSIVE JoinRepr(_)
RECURSIVE Repr(_)
Repr(x) == IF x.t = "str" THEN <<"'">> \o x.v \o <<"'">> ELSE Str(x)
JoinRepr(items) ==
    IF items = <<>> THEN <<>>
    ELSE IF Len(items) = 1 THEN Repr(items[1])
    ELSE Repr(items[1]) \o <<",", " ">> \o JoinRepr(Tail(items))
Str(x) ==
    CASE x.t = "none"  -> <<"N","o","n","e">>
      [] x.t = "bool"  -> IF x.v THEN <<"T","r","u","e">> ELSE <<"F","a","l","s","e">>
      [] x.t = "int"   -> IntStr(x)
      [] x.t = "float" -> FloatText(x, FALSE)
      [] x.t = "str"   -> x.v
      [] x.t = "list"  -> <<"[">> \o JoinRepr(x.v) \o <<"]">>
      [] x.t = "dict"  -> <<"{", ".", ".", ".", "}">>

\* f"{x:,}": an int or a float is grouped; a str raises ValueError
\* ("Cannot specify ',' with 's'"); None, list and dict raise TypeError
FormatComma(x) ==
    CASE x.t = "int"   -> PyStr(IntComma(x))
      [] x.t = "bool"  -> PyStr(IntComma(x))
      [] x.t = "float" -> PyStr(FloatText(x, TRUE))
      [] OTHER         -> Raised

(***************************************************************************)
(* HTTP.  A request ends in a transport error (the client raises) or in a  *)
(* response with a status, a content type that is JSON or not, and a body  *)
(* that parses to a Python value or does not parse.                        *)
(***************************************************************************)
TransportError == [kind |-> "error"]
Http(st, json_ct, b) == [kind |-> "http", status |-> st, ctype_json |-> json_ct, body |-> b]
NotJson == [t |-> "invalid"]

\* a 200 response carrying the JSON-RPC envelope {"result": x}
RpcOk(x) == Http(200, TRUE, PyDict([result |-> x]))

make_rpc_call_any_status(r) ==
    IF r.kind = "error" THEN None
    ELSE IF r.body.t # "dict" THEN None
    ELSE DictGet(r.body, "result")

\* bot.py make_rpc_call, given what session.post produced: the 'result' of
\* the envelope, None on a non-200 status and on every exception
\* (response.json(content_type=None) skips the content-type check)
make_rpc_call(r) ==
    IF r.kind = "error" THEN None
    ELSE IF r.status # 200 THEN None
    ELSE IF r.body.t = "invalid" THEN None
    ELSE IF r.body.t # "dict" THEN None
    ELSE DictGet(r.body, "result")

\* await response.json() with the default content-type check: the parsed
\* body, or Raised (ContentTypeError, JSONDecodeError, a transport error)
ResponseJson(r) ==
    IF r.kind = "error" THEN Raised
    ELSE IF ~r.ctype_json THEN Raised
    ELSE IF r.body.t = "invalid" THEN Raised
    ELSE r.body

AllDigits(s) == s # <<>> /\ \A i \in 1..Len(s) : s[i] \in DigitChars

RECURSIVE DigitsToNat(_)
DigitsToNat(s) ==
    IF s = <<>> THEN 0 ELSE 10 * DigitsToNat(SubSeq(s, 1, Len(s) - 1)) + DigitVal(s[Len(s)])

\* float(x): a number is taken as it is, a str of decimal digits is parsed
\* (the numeric strings of the model are digits only, at most 9 of them),
\* any other str raises ValueError, None, list and dict raise TypeError
PyFloatOf(x) ==
    CASE x.t \in {"int", "float", "bool"} -> x
      [] x.t = "str" -> IF AllDigits(x.v) /\ Len(x.v) <= 9 THEN PyInt(DigitsToNat(x.v)) ELSE Raised
      [] OTHER -> Raised

B_SOTER == <<"B"," ","S","O","T","E","R">>

\* lines 104-109: the supply text from the supply response
SupplyOf(r) ==
    LET data == ResponseJson(r)
        raw == IF data.t = "dict" /\ "coinsupply" \in DOMAIN data.v
               THEN PyFloatOf(data.v["coinsupply"]) ELSE Raised
    IN  IF raw = Raised THEN PyStr(NA)
        ELSE PyStr(FormatGiga(raw, 2) \o B_SOTER)

\* line 94 and line 101: make_rpc_call(...) or "N/A"
OrNA(x) == PyOr(x, PyStr(NA))

\* line 98: the hashrate text
HashrateOf(x) == IF IsNumber(x) THEN PyStr(FormatGiga(x, 3)) ELSE PyStr(NA)

UP == "UP-TRIANGLE"
DOWN == "DOWN-TRIANGLE"

\* x >= 0 of a number
NonNeg(x) == ~IsNeg(x)

\* (md.get(name) or {}).get("usd"): Raised when md.get(name) is true and no dict
UsdOf(md, name) ==
    LET inner == PyOr(DictGet(md, name), EmptyDict)
    IN  IF inner.t = "dict" THEN DictGet(inner, "usd") ELSE Raised

\* lines 121-126: the price text from the spot price and the 24h change
PriceDisplay(current_price, change_24h) ==
    LET price_core == IF IsNumber(current_price)
                      THEN <<"$">> \o FormatFixed(current_price, 6, FALSE) ELSE NA
        arrow == IF NonNeg(change_24h)
                 THEN <<UP, " ", "+">> \o FormatFixed(change_24h, 2, FALSE) \o <<"%">>
                 ELSE <<DOWN, " ">> \o FormatFixed(change_24h, 2, FALSE) \o <<"%">>
    IN  IF IsNumber(change_24h)
        THEN price_core \o <<" ", "(">> \o arrow \o <<" ", "2", "4", "h", ")">>
        ELSE price_core

\* lines 128-129: volume and market cap text
WholeDisplay(x) == IF IsNumber(x) THEN FormatFixed(x, 0, TRUE) ELSE NA

AllNA == [price |-> PyStr(NA), volume |-> PyStr(NA), market_cap |-> PyStr(NA)]

\* lines 111-134: the three market texts from the market-data response; an
\* exception anywhere in the block sets all three to "N/A"
MarketOf(r) ==
    LET data == ResponseJson(r)
        md == IF data.t # "dict" THEN Raised
              ELSE IF "market_data" \in DOMAIN data.v THEN data.v["market_data"] ELSE EmptyDict
        ok == md.t = "dict"
        current_price == IF ok THEN UsdOf(md, "current_price") ELSE Raised
        volume_24h == IF ok THEN UsdOf(md, "total_volume") ELSE Raised
        market_cap == IF ok THEN UsdOf(md, "market_cap") ELSE Raised
        change_24h == IF ok THEN DictGet(md, "price_change_percentage_24h") ELSE Raised
    IN  IF ~ok \/ Raised \in {current_price, volume_24h, market_cap} THEN AllNA
        ELSE [price |-> PyStr(PriceDisplay(current_price, change_24h)),
              volume |-> PyStr(WholeDisplay(volume_24h)),
              market_cap |-> PyStr(WholeDisplay(market_cap))]

(***************************************************************************)
(* The guilds (the chat platform's state, as the client's cache shows it)  *)
(***************************************************************************)
\* client.guilds, in order
GuildList == <<"g1", "g2">>
Guilds == {GuildList[i] : i \in 1..Len(GuildList)}

\* faults and outside interference the model injects in one behaviour: a
\* failing fetch, a missing member count, a failing platform call, a
\* reconnect, a channel moved by someone else
MaxEvents == 1

\* a channel: its name, its kind ("voice", "stage", "text"), whether it is in
\* the category "Soteria Server Stats", whether connect is denied to the
\* default role, and who created it
Channel(n, k, c, b) == [name |-> n, kind |-> k, cat |-> c, private |-> FALSE, by |-> b]

\* g1 has no stats category yet.  g2 has one, holding a foreign voice channel,
\* a stage channel and a voice channel an administrator named by hand, and a
\* voice channel with a label-like name outside the category.
InitChannels ==
    [g \in Guilds |->
        IF g = "g1" THEN <<>>
        ELSE << Channel(<<"G","e","n","e","r","a","l">>, "voice", TRUE, "other"),
                Channel(<<"B","l","o","c","k",":"," ","p","a","r","t","y">>, "stage", TRUE, "other"),
                Channel(<<"P","R","I","C","E"," ",":"," ","o","l","d">>, "voice", TRUE, "other"),
                Channel(<<"S","u","p","p","l","y",":"," ","1">>, "voice", FALSE, "other") >>]

InitCategories == [g \in Guilds |-> IF g = "g1" THEN 0 ELSE 1]

VARIABLES
    ready,       \* times on_ready has been dispatched
    launched,    \* running copies of the update_stats_task loop
    firing,      \* the body of update_stats_task is running
    todo,        \* guilds left in `for guild in client.guilds`
    cur,         \* guild of the running update_stats_channels, or "none"
    pc,          \* where update_stats_channels stands
    ki,          \* index in KeyOrder of the next update_channel call
    loc,         \* local variables of update_stats_channels
    lockList,    \* channels left in `for ch in category.voice_channels`
    categories,  \* per guild: categories named "Soteria Server Stats"
    channels,    \* per guild: its channels, in position order
    resp,        \* the response the last request received
    events,      \* faults and interference injected so far
    attempted,   \* history: keys update_channel was called for, this cycle
    failed,      \* history: keys whose update_channel raised (creates: in
                 \* create_voice_channel), channels whose set_permissions
                 \* raised, channels moved out by someone else, this cycle
    permCalls,   \* history: channels set_permissions was called on, this cycle
    lockSnap,    \* history: category.voice_channels when the lock loop began
    processed,   \* history: guilds update_stats_channels ran for, this firing
    aborted,     \* history: guilds whose cycle ended in the catch-all, this firing
    calls,       \* history: the requests sent, the category lookups and
                 \* create_category calls made, and the channel mutations
                 \* issued since the last sleep (run) and the longest such
                 \* series (burst), this cycle
    run,         \* history: reconcile passes completed (the two-pass harness)
    hist         \* history: channels before the first pass and after it

vars == <<ready, launched, firing, todo, cur, pc, ki, loc, lockList,
          categories, channels, resp, events, attempted, failed, permCalls,
          lockSnap, processed, aborted, calls, run, hist>>

sched == <<ready, launched, firing, todo>>
guildState == <<categories, channels>>
reconcileHist == <<attempted, failed, permCalls, lockSnap>>
cycleHist == <<attempted, failed, permCalls, lockSnap, calls>>
firingHist == <<processed, aborted>>
harness == <<run, hist>>

Unset == [t |-> "unset"]

NoLocals ==
    [difficulty_soterg |-> Unset, hashrate_soterg |-> Unset, block_count |-> Unset,
     supply |-> Unset, price_display |-> Unset, volume_display |-> Unset,
     market_cap_display |-> Unset, member_count |-> Unset]

NoResp == [kind |-> "none"]
NoHist == [pre |-> <<>>, mid |-> <<>>]
NoFailures == [keys |-> {}, creates |-> {}, perms |-> {}, moved |-> {}]
NoCalls == [requests |-> <<>>, lookups |-> 0, creates |-> 0, run |-> 0, burst |-> 0]

\* the five data requests of a cycle, in the order of lines 94-113
Requests == <<"getdifficulty", "getnetworkhashps", "getblockcount", "supply", "market">>

\* a request is sent
Sent(c, name) == [c EXCEPT !.requests = Append(@, name)]

\* n channel mutations are issued one after another
Issued(c, n) ==
    [c EXCEPT !.run = @ + n, !.burst = IF c.run + n > @ THEN c.run + n ELSE @]

\* asyncio.sleep(0.5) has been awaited
Slept(c) == [c EXCEPT !.run = 0]

Init ==
    /\ ready = 0 /\ launched = 0
    /\ firing = FALSE /\ todo = <<>> /\ cur = "none" /\ pc = "idle" /\ ki = 0
    /\ loc = NoLocals /\ lockList = <<>>
    /\ categories = InitCategories /\ channels = InitChannels
    /\ resp = NoResp /\ events = 0
    /\ attempted = <<>> /\ failed = NoFailures /\ permCalls = {} /\ lockSnap = <<>>
    /\ processed = <<>> /\ aborted = {} /\ calls = NoCalls /\ run = 0 /\ hist = NoHist

\* the inputs a step may draw: the fault-free ones, and the faulty ones while
\* the budget of injected events lasts
Draw(free, faulty) == free \cup (IF events < MaxEvents THEN faulty ELSE {})
Cost(x, free) == IF x \in free THEN 0 ELSE 1

(***************************************************************************)
(* The scheduler: tasks.loop(minutes=5), started from on_ready             *)
(***************************************************************************)
\* update_stats_task.start(): a Loop whose task is running raises
\* RuntimeError and starts nothing; otherwise one task is launched
start_again(n) == n + 1
start(n) == IF n > 0 THEN n ELSE 1

\* on_ready (lines 179-182); a second dispatch is a reconnect
on_ready ==
    /\ ready > 0 => events < MaxEvents
    /\ events' = IF ready > 0 THEN events + 1 ELSE events
    /\ ready' = ready + 1
    /\ launched' = start(launched)
    /\ UNCHANGED <<firing, todo, cur, pc, ki, loc, lockList, guildState,
                   resp, cycleHist, firingHist, harness>>

\* the loop begins an iteration of update_stats_task (line 175).  The first
\* one begins when the loop is started; the loop then waits for the iteration
\* to return and for what is left of the five minutes, which is nothing when
\* the iteration took longer, so an iteration begins only once the previous
\* one has returned.  Time is not measured: any wait may have passed.
Fire ==
    /\ launched > 0 /\ ~firing
    /\ firing' = TRUE
    /\ todo' = GuildList
    /\ processed' = <<>> /\ aborted' = {}
    /\ UNCHANGED <<ready, launched, cur, pc, ki, loc, lockList, guildState, resp,
                   events, cycleHist, harness>>

\* lines 175-177: the next guild of the for loop; update_stats_channels is
\* entered and its session opened
GuildBegin ==
    /\ firing /\ pc = "idle" /\ todo # <<>>
    /\ cur' = Head(todo) /\ todo' = Tail(todo)
    /\ pc' = "rpc_difficulty" /\ ki' = 0
    /\ loc' = NoLocals /\ lockList' = <<>>
    /\ attempted' = <<>> /\ failed' = NoFailures /\ permCalls' = {} /\ lockSnap' = <<>>
    /\ calls' = NoCalls
    /\ processed' = Append(processed, Head(todo))
    /\ UNCHANGED <<ready, launched, firing, guildState, resp, events, aborted, harness>>

\* the for loop of update_stats_task is exhausted: the iteration returns
FiringEnd ==
    /\ firing /\ pc = "idle" /\ todo = <<>>
    /\ firing' = FALSE
    /\ UNCHANGED <<ready, launched, todo, cur, pc, ki, loc, lockList,
                   guildState, resp, events, cycleHist, firingHist, harness>>

\* lines 169-170: the catch-all of update_stats_channels logs and returns
Outer_reraise == "raise"
Outer_except == "return"

\* update_stats_channels ends.  A return resumes update_stats_task at line
\* 175; an exception leaving it would end the loop's task (tasks.loop stops
\* on an exception it was not told to retry).
CycleEnd ==
    /\ pc \in {"return", "raise"} /\ firing
    /\ IF pc = "return"
       THEN UNCHANGED <<launched, firing, todo>>
       ELSE launched' = launched - 1 /\ firing' = FALSE /\ todo' = <<>>
    /\ pc' = "idle" /\ cur' = "none" /\ ki' = 0
    /\ loc' = NoLocals /\ lockList' = <<>> /\ resp' = NoResp
    /\ attempted' = <<>> /\ failed' = NoFailures /\ permCalls' = {} /\ lockSnap' = <<>>
    /\ calls' = NoCalls
    /\ UNCHANGED <<ready, guildState, events, firingHist, harness>>

(***************************************************************************)
(* The inputs of the fetchers                                              *)
(***************************************************************************)
Absent == [t |-> "absent"]

\* the market-data body {"market_data": {...}} with each of the four fields
\* present (a value) or Absent
MarketBody(price, volume, cap, change) ==
    LET val == [k \in {"current_price", "total_volume", "market_cap",
                       "price_change_percentage_24h"} |->
                   IF k = "current_price" THEN price
                   ELSE IF k = "total_volume" THEN volume
                   ELSE IF k = "market_cap" THEN cap ELSE change]
        ks == {k \in DOMAIN val : val[k] # Absent}
    IN  PyDict([market_data |->
                  PyDict([k \in ks |-> IF k = "price_change_percentage_24h" THEN val[k]
                                       ELSE PyDict([usd |-> val[k]])])])

\* what the five endpoints answer when all is well
GoodDifficulty == RpcOk(PyFloat(12345, 1))
GoodHashrate == RpcOk(PyInt(1234567890))
GoodBlock == RpcOk(PyInt(1234))
GoodSupply == Http(200, TRUE, PyDict([coinsupply |-> PyBig(2500, 0)]))
GoodMarket ==
    Http(200, TRUE, MarketBody(PyFloat(123, 6), PyInt(1234567), PyFloat(98765432, 1), PyFloat(20, 1)))
GoodMembers == PyInt(1234)

\* the RPC results and responses of the formatter's specification
RpcResults ==
    { None, PyInt(0), PyInt(1234), PyInt(1234567890), PyFloat(12345, 1),
      PyStr(<<>>), PyStr(<<"a", "b", "c">>), PyList(<<>>), PyList(<<PyInt(1)>>),
      EmptyDict, PyBool(TRUE) }

RpcResponses ==
    { TransportError, Http(500, TRUE, PyDict([result |-> PyInt(5)])),
      Http(200, FALSE, NotJson), Http(200, TRUE, PyList(<<>>)), Http(200, TRUE, EmptyDict) }
    \cup { RpcOk(x) : x \in RpcResults }

SupplyResponses ==
    { TransportError, Http(200, FALSE, PyDict([coinsupply |-> PyInt(5)])),
      Http(200, TRUE, NotJson), Http(200, TRUE, PyList(<<>>)), Http(200, TRUE, EmptyDict),
      Http(500, TRUE, PyDict([coinsupply |-> PyInt(5)])) }
    \cup { Http(200, TRUE, PyDict([coinsupply |-> x])) :
             x \in { PyBig(2500, 0), PyInt(1234567890), PyFloat(12345, 1), None,
                     PyStr(<<"1","2","3","4","5","6","7","8","9">>), PyStr(<<"a">>) } }

\* successful market-data responses, each of the four fields present or not
PartialMarketResponses ==
    { Http(200, TRUE, MarketBody(p, v, c, ch)) :
        p \in {Absent, PyFloat(123, 6)}, v \in {Absent, PyInt(1234567)},
        c \in {Absent, PyFloat(98765432, 1)},
        ch \in {Absent, PyFloat(20, 1), PyFloat(-15, 1)} }

MarketResponses ==
    { TransportError, Http(200, TRUE, NotJson), Http(200, TRUE, PyList(<<>>)),
      Http(200, TRUE, EmptyDict), Http(200, TRUE, PyDict([market_data |-> None])),
      Http(200, TRUE, MarketBody(PyInt(5), None, PyStr(<<"x">>), PyStr(<<"y">>))) }
    \cup PartialMarketResponses

(***************************************************************************)
(* update_stats_channels, lines 90-134: fetch and format                   *)
(***************************************************************************)
FetchFrame ==
    UNCHANGED <<sched, cur, ki, lockList, guildState, reconcileHist, firingHist, harness>>

\* line 94
FetchDifficulty(free, faulty) ==
    /\ pc = "rpc_difficulty"
    /\ \E r \in Draw(free, faulty) :
        /\ resp' = r
        /\ loc' = [loc EXCEPT !.difficulty_soterg = OrNA(make_rpc_call(r))]
        /\ events' = events + Cost(r, free)
    /\ pc' = "rpc_hashrate"
    /\ calls' = Sent(calls, "getdifficulty")
    /\ FetchFrame

\* lines 97-98
FetchHashrate(free, faulty) ==
    /\ pc = "rpc_hashrate"
    /\ \E r \in Draw(free, faulty) :
        /\ resp' = r
        /\ loc' = [loc EXCEPT !.hashrate_soterg = HashrateOf(make_rpc_call(r))]
        /\ events' = events + Cost(r, free)
    /\ pc' = "rpc_block"
    /\ calls' = Sent(calls, "getnetworkhashps")
    /\ FetchFrame

\* line 101
FetchBlockRetry(free, faulty) ==
    /\ pc = "rpc_block"
    /\ \E r \in Draw(free, faulty) :
        /\ resp' = r
        /\ loc' = [loc EXCEPT !.block_count = OrNA(make_rpc_call(r))]
        /\ events' = events + Cost(r, free)
        /\ pc' = IF make_rpc_call(r) = None THEN "rpc_block" ELSE "supply"
    /\ calls' = Sent(calls, "getblockcount")
    /\ FetchFrame
FetchBlock(free, faulty) ==
    /\ pc = "rpc_block"
    /\ \E r \in Draw(free, faulty) :
        /\ resp' = r
        /\ loc' = [loc EXCEPT !.block_count = OrNA(make_rpc_call(r))]
        /\ events' = events + Cost(r, free)
    /\ pc' = "supply"
    /\ calls' = Sent(calls, "getblockcount")
    /\ FetchFrame

\* the except clause of the supply block (lines 108-109) assigns supply only
SupplyAssign(l, text) == [l EXCEPT !.supply = text]

\* lines 104-109
FetchSupply(free, faulty) ==
    /\ pc = "supply"
    /\ \E r \in Draw(free, faulty) :
        /\ resp' = r
        /\ loc' = SupplyAssign(loc, SupplyOf(r))
        /\ events' = events + Cost(r, free)
    /\ pc' = "market"
    /\ calls' = Sent(calls, "supply")
    /\ FetchFrame

\* the market block (lines 112-134) has a try of its own: it assigns the
\* three market texts whatever the supply block did
MarketAssignShared(l, r) ==
    LET m == IF l.supply = PyStr(NA) THEN AllNA ELSE MarketOf(r)
    IN  [l EXCEPT !.price_display = m.price, !.volume_display = m.volume,
                  !.market_cap_display = m.market_cap]
MarketAssign(l, r) ==
    [l EXCEPT !.price_display = MarketOf(r).price,
              !.volume_display = MarketOf(r).volume,
              !.market_cap_display = MarketOf(r).market_cap]

\* lines 111-134; the session closes after it
FetchMarket(free, faulty) ==
    /\ pc = "market"
    /\ \E r \in Draw(free, faulty) :
        /\ resp' = r
        /\ loc' = MarketAssign(loc, r)
        /\ events' = events + Cost(r, free)
    /\ pc' = "category"
    /\ calls' = Sent(calls, "market")
    /\ FetchFrame

(***************************************************************************)
(* update_stats_channels, lines 136-167: reconcile                         *)
(***************************************************************************)
\* line 69: target_norm = norm(CHANNEL_KEYS[channel_key]), key by key
target_norm ==
    [members           |-> norm(CHANNEL_KEYS("members")),
     difficulty_soterg |-> norm(CHANNEL_KEYS("difficulty_soterg")),
     hashrate_soterg   |-> norm(CHANNEL_KEYS("hashrate_soterg")),
     block             |-> norm(CHANNEL_KEYS("block")),
     supply            |-> norm(CHANNEL_KEYS("supply")),
     price             |-> norm(CHANNEL_KEYS("price")),
     volume_24h        |-> norm(CHANNEL_KEYS("volume_24h")),
     market_cap        |-> norm(CHANNEL_KEYS("market_cap"))]

\* category.voice_channels: the voice channels of the category, by position
RECURSIVE VoiceFrom(_, _)
VoiceFrom(chs, i) ==
    IF i > Len(chs) THEN <<>>
    ELSE (IF chs[i].kind = "voice" /\ chs[i].cat THEN <<i>> ELSE <<>>) \o VoiceFrom(chs, i + 1)
voice_channels(chs) == VoiceFrom(chs, 1)

\* line 71: the test that selects a channel for a key
MatchesExactly(name, key) == name = CHANNEL_KEYS(key)
MatchesAnything(name, key) == TRUE
Matches(name, key) == StartsWith(norm(name), target_norm[key])

\* lines 70-72 of get_or_create_channel: the first voice channel of the
\* category that matches, 0 when the loop ends without one
FindChannel(chs, key) ==
    LET hits == SelectSeq(voice_channels(chs), LAMBDA i : Matches(chs[i].name, key))
    IN  IF hits = <<>> THEN 0 ELSE Head(hits)

\* lines 149-163: the value argument of the update_channel call for a key;
\* Raised when evaluating it raises (f"{member_count:,}" of a str)
ArgOf(key, l) ==
    CASE key = "members"           -> FormatComma(l.member_count)
      [] key = "difficulty_soterg" -> l.difficulty_soterg
      [] key = "hashrate_soterg"   -> l.hashrate_soterg
      [] key = "block"             -> l.block_count
      [] key = "supply"            -> l.supply
      [] key = "price"             -> l.price_display
      [] key = "volume_24h"        -> l.volume_display
      [] key = "market_cap"        -> l.market_cap_display

\* line 85: the name update_channel gives the channel
LabelOf(key, value) == CHANNEL_KEYS(key) \o <<" ">> \o Str(value)

\* line 140: discord.utils.get(guild.categories, name=category_name) finds
\* a category when the guild has one of the name
CategoryMissed(n) == FALSE
FindCategory(n) == n > 0

\* lines 136-146: the member count, then the category, created when no
\* category of the name exists, and the 0.5 s sleep; create_category may
\* raise
ResolveCategory(free, faulty) ==
    /\ pc = "category"
    /\ \E mc \in Draw(free, faulty) :
       \E made \in IF FindCategory(categories[cur]) THEN {"found"}
                   ELSE {"created"} \cup
                        (IF events + Cost(mc, free) < MaxEvents THEN {"raised"} ELSE {}) :
        /\ loc' = [loc EXCEPT !.member_count = PyOr(mc, PyStr(NA))]
        /\ events' = events + Cost(mc, free) + (IF made = "raised" THEN 1 ELSE 0)
        /\ categories' = IF made = "created" THEN [categories EXCEPT ![cur] = @ + 1]
                         ELSE categories
        /\ calls' = [(IF made = "raised" THEN calls ELSE Slept(calls))
                        EXCEPT !.lookups = @ + 1,
                               !.creates = IF made = "found" THEN @ ELSE @ + 1]
        /\ pc' = IF made = "raised" THEN Outer_except ELSE "update"
        /\ aborted' = IF made = "raised" THEN aborted \cup {cur} ELSE aborted
    /\ ki' = 1
    /\ UNCHANGED <<sched, cur, lockList, channels, resp, reconcileHist, processed, harness>>

\* lines 86-87 and lines 79-80: the handlers of update_channel and of
\* set_channel_private log the exception and return
Helper_reraise == "propagate"
Helper_except == "continue"

\* one update_channel call (lines 82-87 with get_or_create_channel, lines
\* 67-73), the 0.5 s sleep after it, and after the last key the list the lock
\* loop iterates (line 166)
UpdateChannel ==
    /\ pc = "update"
    /\ LET key == KeyOrder[ki]
           value == ArgOf(key, loc)
           chs == channels[cur]
           found == FindChannel(chs, key)
       IN  IF value = Raised
           THEN /\ pc' = Outer_except
                /\ aborted' = aborted \cup {cur}
                /\ UNCHANGED <<ki, lockList, channels, events, cycleHist>>
           ELSE \E outcome \in Draw({"ok"}, (IF found = 0 THEN {"create_raises"} ELSE {})
                                              \cup {"edit_raises"}) :
                LET chs1 == IF found = 0 /\ outcome # "create_raises"
                            THEN Append(chs, Channel(CHANNEL_KEYS(key), "voice", TRUE, "bot"))
                            ELSE chs
                    idx == IF found = 0 THEN Len(chs1) ELSE found
                    chs2 == IF outcome = "ok"
                            THEN [chs1 EXCEPT ![idx].name = LabelOf(key, value)]
                            ELSE chs1
                    goesOn == outcome = "ok" \/ Helper_except = "continue"
                    last == ki = Len(KeyOrder)
                IN  /\ channels' = [channels EXCEPT ![cur] = chs2]
                    /\ events' = events + Cost(outcome, {"ok"})
                    /\ attempted' = Append(attempted, key)
                    /\ failed' = IF outcome = "ok" THEN failed
                                 ELSE IF outcome = "edit_raises"
                                 THEN [failed EXCEPT !.keys = @ \cup {key}]
                                 ELSE [failed EXCEPT !.keys = @ \cup {key},
                                                     !.creates = @ \cup {key}]
                    /\ ki' = IF goesOn /\ ~last THEN ki + 1 ELSE ki
                    /\ lockList' = IF goesOn /\ last THEN voice_channels(channels'[cur])
                                   ELSE lockList
                    /\ lockSnap' = lockList'
                    /\ pc' = IF ~goesOn THEN Outer_except
                             ELSE IF ~last THEN "update"
                             ELSE IF lockList' = <<>> THEN "return" ELSE "lock"
                    /\ aborted' = IF goesOn THEN aborted ELSE aborted \cup {cur}
                    /\ calls' = LET n == (IF found = 0 THEN 1 ELSE 0)
                                         + (IF outcome = "create_raises" THEN 0 ELSE 1)
                                     c == Issued(calls, n)
                                 IN  IF goesOn /\ ~last THEN Slept(c) ELSE c
                    /\ UNCHANGED permCalls
    /\ UNCHANGED <<sched, cur, loc, categories, resp, processed, harness>>

\* line 77: the guard of set_channel_private
AnyChannel(c) == TRUE
IsCategoryVoice(c) == c.kind = "voice" /\ c.cat

\* one turn of the lock loop (lines 166-167): set_channel_private (lines
\* 75-80) on the next channel of the list
LockChannel ==
    /\ pc = "lock" /\ lockList # <<>>
    /\ LET ch == Head(lockList)
           c == channels[cur][ch]
       IN  \E outcome \in IF IsCategoryVoice(c) THEN Draw({"ok"}, {"raises"}) ELSE {"skipped"} :
           LET goesOn == outcome # "raises" \/ Helper_except = "continue"
           IN  /\ channels' = IF outcome = "ok"
                              THEN [channels EXCEPT ![cur][ch].private = TRUE]
                              ELSE channels
               /\ events' = events + (IF outcome = "raises" THEN 1 ELSE 0)
               /\ permCalls' = IF outcome = "skipped" THEN permCalls ELSE permCalls \cup {ch}
               /\ calls' = IF outcome = "skipped" THEN calls ELSE Issued(calls, 1)
               /\ failed' = IF outcome = "raises"
                            THEN [failed EXCEPT !.perms = @ \cup {ch}] ELSE failed
               /\ lockList' = Tail(lockList)
               /\ pc' = IF ~goesOn THEN Outer_except
                        ELSE IF Tail(lockList) = <<>> THEN "return" ELSE "lock"
               /\ aborted' = IF goesOn THEN aborted ELSE aborted \cup {cur}
    /\ UNCHANGED <<sched, cur, ki, loc, categories, resp, attempted, lockSnap,
                   processed, harness>>

\* someone moves the channel the lock loop is about to reach out of the
\* category
MoveChannelOut ==
    /\ pc = "lock" /\ events < MaxEvents /\ lockList # <<>>
    /\ channels[cur][Head(lockList)].cat
    /\ channels' = [channels EXCEPT ![cur][Head(lockList)].cat = FALSE]
    /\ events' = events + 1
    /\ failed' = [failed EXCEPT !.moved = @ \cup {Head(lockList)}]
    /\ UNCHANGED <<sched, cur, pc, ki, loc, lockList, categories, resp, attempted,
                   permCalls, lockSnap, calls, firingHist, harness>>

(***************************************************************************)
(* The program                                                             *)
(***************************************************************************)
Next ==
    \/ on_ready
    \/ Fire
    \/ GuildBegin
    \/ FiringEnd
    \/ FetchDifficulty({GoodDifficulty}, {TransportError})
    \/ FetchHashrate({GoodHashrate}, {Http(500, TRUE, EmptyDict)})
    \/ FetchBlock({GoodBlock}, {RpcOk(None)})
    \/ FetchSupply({GoodSupply}, {TransportError})
    \/ FetchMarket({GoodMarket}, {TransportError})
    \/ ResolveCategory({GoodMembers}, {None})
    \/ UpdateChannel
    \/ LockChannel
    \/ MoveChannelOut
    \/ CycleEnd

Spec == Init /\ [][Next]_vars

(***************************************************************************)
(* The fetch-and-format part alone (lines 92-134), on every response of    *)
(* RpcResponses, SupplyResponses and MarketResponses: it starts where      *)
(* update_stats_channels has just been entered for the first guild.        *)
(***************************************************************************)
InitFmt ==
    /\ ready = 1 /\ launched = 1
    /\ firing = TRUE /\ todo = Tail(GuildList) /\ cur = Head(GuildList)
    /\ pc = "rpc_difficulty" /\ ki = 0
    /\ loc = NoLocals /\ lockList = <<>>
    /\ categories = InitCategories /\ channels = InitChannels
    /\ resp = NoResp /\ events = 0
    /\ attempted = <<>> /\ failed = NoFailures /\ permCalls = {} /\ lockSnap = <<>>
    /\ processed = <<Head(GuildList)>> /\ aborted = {} /\ calls = NoCalls
    /\ run = 0 /\ hist = NoHist

NextFmt ==
    \/ FetchDifficulty(RpcResponses, {})
    \/ FetchHashrate(RpcResponses, {})
    \/ FetchBlock(RpcResponses, {})
    \/ FetchSupply(SupplyResponses, {})
    \/ FetchMarket(MarketResponses, {})

SpecFmt == InitFmt /\ [][NextFmt]_vars

(***************************************************************************)
(* The reconcile part alone (lines 136-167), run twice in succession with  *)
(* the same values on a guild in any of the states of PreStates, every     *)
(* platform call succeeding.                                               *)
(***************************************************************************)
\* channels a guild may hold before the bot first runs
Sample ==
    << Channel(<<"M","e","m","b","e","r","s",":"," ","7">>, "voice", TRUE, "other"),
       Channel(<<"M","E","M","B","E","R","S",":">>, "voice", TRUE, "other"),
       Channel(<<"p","r","i","c","e"," ",":","o","l","d">>, "voice", TRUE, "other"),
       Channel(<<"B","l","o","c","k",":"," ","x">>, "stage", TRUE, "other"),
       Channel(<<"B","l","o","c","k",":"," ","9">>, "voice", FALSE, "other"),
       Channel(<<"B","l","o","c","k","c","h","a","i","n">>, "voice", TRUE, "other") >>

\* the members of Sample chosen by pick, in order
RECURSIVE Chosen(_, _)
Chosen(pick, i) ==
    IF i > Len(Sample) THEN <<>>
    ELSE (IF i \in pick THEN <<Sample[i]>> ELSE <<>>) \o Chosen(pick, i + 1)

PreStates == { Chosen(pick, 1) : pick \in SUBSET (1..Len(Sample)) }

\* the locals the fetch-and-format part leaves for five responses
LocalsOf(d, h, b, su, m) ==
    MarketAssign(
        SupplyAssign([NoLocals EXCEPT !.difficulty_soterg = OrNA(make_rpc_call(d)),
                                      !.hashrate_soterg = HashrateOf(make_rpc_call(h)),
                                      !.block_count = OrNA(make_rpc_call(b))],
                     SupplyOf(su)),
        m)

Mappings ==
    { <<GoodDifficulty, GoodHashrate, GoodBlock, GoodSupply, GoodMarket>>,
      <<TransportError, TransportError, TransportError, TransportError, TransportError>>,
      <<RpcOk(PyStr(<<"a", "b", "c">>)), GoodHashrate, RpcOk(PyInt(0)), TransportError,
        Http(200, TRUE, MarketBody(Absent, PyInt(1234567), Absent, PyFloat(-15, 1)))>> }

InitRec ==
    /\ ready = 1 /\ launched = 1
    /\ firing = TRUE /\ todo = Tail(GuildList) /\ cur = Head(GuildList)
    /\ pc = "category" /\ ki = 0
    /\ \E m \in Mappings :
        /\ loc = LocalsOf(m[1], m[2], m[3], m[4], m[5])
        /\ resp = m[5]
    /\ lockList = <<>>
    /\ \E pre \in PreStates :
        /\ channels = [InitChannels EXCEPT ![Head(GuildList)] = pre]
        /\ categories \in { [InitCategories EXCEPT ![Head(GuildList)] = n] :
                              n \in IF \E i \in 1..Len(pre) : pre[i].cat THEN {1} ELSE {0, 1} }
        /\ hist = [pre |-> pre, mid |-> <<>>]
    /\ events = MaxEvents
    /\ attempted = <<>> /\ failed = NoFailures /\ permCalls = {} /\ lockSnap = <<>>
    /\ processed = <<Head(GuildList)>> /\ aborted = {} /\ run = 0
    /\ calls = [NoCalls EXCEPT !.requests = Requests]

\* the first pass has returned: the same values are reconciled again; the
\* second pass has returned: done
PassAgain ==
    /\ pc = "return" /\ run < 2
    /\ run' = run + 1
    /\ hist' = IF run = 0 THEN [hist EXCEPT !.mid = channels[cur]] ELSE hist
    /\ pc' = IF run = 0 THEN "category" ELSE "done"
    /\ ki' = 0 /\ lockList' = <<>>
    /\ attempted' = <<>> /\ failed' = NoFailures /\ permCalls' = {} /\ lockSnap' = <<>>
    /\ calls' = [NoCalls EXCEPT !.requests = Requests]
    /\ UNCHANGED <<sched, cur, loc, guildState, resp, events, firingHist>>

NextRec ==
    \/ ResolveCategory({GoodMembers}, {None})
    \/ UpdateChannel
    \/ LockChannel
    \/ PassAgain

SpecRec == InitRec /\ [][NextRec]_vars

(***************************************************************************)
(* Properties                                                              *)
(***************************************************************************)
\* the voice channels of the category that belong to a key: those whose
\* normalized name starts with the key's normalized label prefix
ChannelsOf(chs, key) ==
    { i \in 1..Len(chs) :
        /\ chs[i].kind = "voice" /\ chs[i].cat
        /\ StartsWith(norm(chs[i].name), target_norm[key]) }

\* the keys each channel belongs to, by position (none for a channel that is
\* no voice channel of the category)
KeysOf(name) ==
    UNION { {key \in Keys : StartsWith(n, target_norm[key])} : n \in {norm(name)} }

RECURSIVE KeysFrom(_, _)
KeysFrom(chs, i) ==
    IF i > Len(chs) THEN <<>>
    ELSE <<IF chs[i].kind = "voice" /\ chs[i].cat THEN KeysOf(chs[i].name) ELSE {}>>
         \o KeysFrom(chs, i + 1)

\* how many channels belong to a key
Count(ks, key) == Cardinality({i \in 1..Len(ks) : key \in ks[i]})

OnePerKey(chs) == \A ks \in {KeysFrom(chs, 1)} : \A key \in Keys : Count(ks, key) = 1
NoDuplicates(chs) == \A ks \in {KeysFrom(chs, 1)} : \A key \in Keys : Count(ks, key) <= 1

\* what two passes of the reconcile part leave: one channel per key, named
\* "<label prefix> <value>", and a second pass that created nothing and
\* renamed nothing
TwoPassesAgree ==
    /\ OnePerKey(channels[cur])
    /\ \A key \in Keys : \A i \in ChannelsOf(channels[cur], key) :
          channels[cur][i].name = CHANNEL_KEYS(key) \o <<" ">> \o Str(ArgOf(key, loc))
    /\ Len(channels[cur]) = Len(hist.mid)
    /\ \A i \in 1..Len(hist.mid) : channels[cur][i].name = hist.mid[i].name

\* C1 as claimed: for ANY guild state, two successive passes of the reconcile
\* part with the same values leave exactly one voice channel per key, the
\* second pass creating no channel and changing no name.
C1_IdempotentAnyGuild == run = 2 => TwoPassesAgree

\* C1 amended: the same, for every guild state in which no key has more than
\* one matching voice channel in the category (the reconciler never deletes,
\* so channels that are duplicates beforehand stay duplicates).
C1_Idempotent == (run = 2 /\ NoDuplicates(hist.pre)) => TwoPassesAgree

\* C1 witness: two passes are done on a guild that held a channel of some key
\* beforehand (it survived the renames) and lacked others (pass one created
\* them).
C1_Witness ==
    /\ run = 2 /\ NoDuplicates(hist.pre)
    /\ \E key \in Keys : ChannelsOf(hist.pre, key) # {}
    /\ Len(hist.mid) > Len(hist.pre)

Range(seq) == {seq[i] : i \in 1..Len(seq)}

\* C2 as claimed: after every cycle for a guild that began with no stats
\* category, also a cycle in which platform calls failed, the category holds
\* exactly one voice channel per key.
C2_ExactlyOneAfterCycle ==
    (pc = "return" /\ cur = "g1") => OnePerKey(channels[cur])

\* C2 amended: during and after the reconcile of a guild its category never
\* holds two voice channels of one key (outside it the channels do not
\* change); and after a cycle that reached the end of the reconcile, every
\* key has exactly one,
\* except a key whose create_voice_channel call failed in that cycle and a key
\* whose channel someone moved out of the category during that cycle.  A
\* cycle that ended in the catch-all (the category could not be created, or
\* the member count was None or 0) reconciled no key at all.
C2_NoDuplicateAndOneWhenCreated ==
    /\ pc \in {"update", "lock", "return"} => NoDuplicates(channels[cur])
    /\ (pc = "return" /\ cur \in aborted) => attempted = <<>>
    /\ (pc = "return" /\ cur \notin aborted) =>
          \A key \in Keys :
              \/ key \in failed.creates
              \/ Cardinality(ChannelsOf(channels[cur], key)) = 1
              \/ \E ch \in failed.moved :
                     StartsWith(norm(channels[cur][ch].name), target_norm[key])

\* C2 witness: a cycle of g1 has ended in which a create_voice_channel call
\* failed: that key has no channel, every other key has one.
C2_Witness ==
    /\ pc = "return" /\ cur = "g1" /\ cur \notin aborted
    /\ failed.creates # {}
    /\ \A key \in Keys \ failed.creates : Cardinality(ChannelsOf(channels[cur], key)) = 1

\* C3: a failing create, rename or permission call is caught where it
\* happens: update_channel is still called for every key, in KeyOrder, and
\* set_permissions for every channel of the lock loop's list that is still a
\* voice channel of the category; such a failure never ends the cycle.
C3_ErrorIsolation ==
    /\ pc = "update" => attempted = SubSeq(KeyOrder, 1, ki - 1)
    /\ (failed.keys # {} \/ failed.perms # {}) => cur \notin aborted
    /\ pc = "lock" => attempted = KeyOrder
    /\ (pc = "return" /\ cur \notin aborted) =>
          /\ attempted = KeyOrder
          /\ \A ch \in Range(lockSnap) : ch \in permCalls \/ ch \in failed.moved

\* C3 witness: a cycle has returned in which the call for the first key
\* failed and the seven other keys and the lock loop were still run.
C3_Witness ==
    /\ pc = "return" /\ failed.keys = {"members"}
    /\ attempted = KeyOrder /\ permCalls # {}

\* the name of the channel of a key is "<prefix> <text>"
Labelled(key, text) ==
    \A i \in ChannelsOf(channels[cur], key) :
        channels[cur][i].name = CHANNEL_KEYS(key) \o <<" ">> \o text

\* C4 as claimed: the members and block labels show the count with thousands
\* separators, or exactly "N/A" when it is no number, and a missing member
\* count leaves the other seven keys reconciled in the same cycle.
C4_IntegerCounts ==
    /\ (pc = "return" /\ loc.member_count = PyStr(NA)) =>
          (attempted = KeyOrder /\ Labelled("members", NA))
    /\ (pc \in {"lock", "return"} /\ attempted = KeyOrder /\ "members" \notin failed.keys
            /\ loc.member_count.t = "int") =>
          Labelled("members", IntComma(loc.member_count))
    /\ (pc \in {"lock", "return"} /\ attempted = KeyOrder /\ "block" \notin failed.keys) =>
          Labelled("block", IF loc.block_count.t = "int" THEN IntComma(loc.block_count) ELSE NA)

\* C5 as claimed: for difficulty, hashrate and block height, a missing or
\* non-numeric RPC result (None, a string, a list, an object) makes the value
\* passed to update_channel exactly "N/A".
NotANumber(r) == make_rpc_call(r).t \in {"none", "str", "list", "dict"}
C5_RpcSentinel ==
    /\ (pc = "rpc_hashrate" /\ NotANumber(resp)) => loc.difficulty_soterg = PyStr(NA)
    /\ (pc = "rpc_block" /\ NotANumber(resp)) => loc.hashrate_soterg = PyStr(NA)
    /\ (pc = "supply" /\ NotANumber(resp)) => loc.block_count = PyStr(NA)

\* C6: no exception leaves update_stats_channels: the loop's task stays alive
\* once started, and every guild of client.guilds is processed in each
\* firing, whatever happened to the guilds before it.
C6_Containment ==
    /\ pc # "raise"
    /\ ready > 0 => launched = 1
    /\ firing => processed \o todo = GuildList
    /\ aborted \subseteq Range(processed)

\* C6 witness: the cycle of g1 ended in the catch-all and, in the same firing,
\* the cycle of g2 is reconciling.
C6_Witness == aborted = {"g1"} /\ cur = "g2" /\ pc = "update"

\* C7: nothing runs before on_ready; after it exactly one loop task exists,
\* however often on_ready is dispatched, and update_stats_channels runs only
\* inside an iteration of it, for one guild at a time, the one taken last
\* from client.guilds.
C7_Exclusion ==
    /\ launched <= 1
    /\ ready = 0 => (launched = 0 /\ ~firing /\ pc = "idle" /\ processed = <<>>)
    /\ firing => launched = 1
    /\ pc # "idle" => (firing /\ cur \in Guilds /\ processed # <<>>
                       /\ processed[Len(processed)] = cur)
    /\ pc = "idle" => cur = "none"

\* C7 witness: on_ready has been dispatched twice and a cycle is running in
\* the one loop task.
C7_Witness == ready >= 2 /\ launched = 1 /\ pc = "update"

\* C8: set_permissions is called only once all eight keys have been
\* reconciled, only on voice channels of the category, and, by the end of the
\* cycle, on every voice channel then in the category, whoever created it.
C8_Visibility ==
    /\ permCalls # {} => attempted = KeyOrder
    /\ \A ch \in permCalls : channels[cur][ch].kind = "voice" /\ channels[cur][ch].cat
    /\ (pc = "return" /\ cur \notin aborted) =>
          \A i \in 1..Len(channels[cur]) :
              (channels[cur][i].kind = "voice" /\ channels[cur][i].cat) => i \in permCalls

\* C8 witness: a cycle of g2 has returned; the foreign channel General got
\* the call, and a channel someone moved out of the category meanwhile got
\* none.
C8_Witness ==
    /\ pc = "return" /\ cur = "g2" /\ cur \notin aborted
    /\ 1 \in permCalls /\ channels[cur][1].by = "other"
    /\ failed.moved # {} /\ failed.moved \cap permCalls = {}

\* the supply request failed: transport, content type, body or field
SupplyFailed(r) ==
    \/ r.kind = "error"
    \/ ~r.ctype_json
    \/ r.body.t # "dict"
    \/ "coinsupply" \notin DOMAIN r.body.v
    \/ PyFloatOf(r.body.v["coinsupply"]) = Raised

MarketTexts(l) == <<l.price_display, l.volume_display, l.market_cap_display>>
OtherTexts(l) == <<l.difficulty_soterg, l.hashrate_soterg, l.block_count, l.member_count>>

\* C9: the supply step assigns supply alone, "N/A" when the request failed;
\* the market step assigns the three market texts from the market response
\* alone, whatever the supply and the RPC steps left, and leaves those as
\* they are.
C9_SourceIndependence ==
    [][ /\ pc = "supply" =>
              /\ MarketTexts(loc') = MarketTexts(loc) /\ OtherTexts(loc') = OtherTexts(loc)
              /\ SupplyFailed(resp') => loc'.supply = PyStr(NA)
        /\ pc = "market" =>
              /\ MarketTexts(loc') =
                     <<MarketOf(resp').price, MarketOf(resp').volume, MarketOf(resp').market_cap>>
              /\ loc'.supply = loc.supply /\ OtherTexts(loc') = OtherTexts(loc) ]_vars

\* C9 witness: the fetches are done; the supply and the difficulty requests
\* failed, and price, volume and market cap are shown.
C9_Witness ==
    /\ pc = "category"
    /\ loc.supply = PyStr(NA) /\ loc.difficulty_soterg = PyStr(NA)
    /\ loc.price_display # PyStr(NA) /\ loc.volume_display # PyStr(NA)
    /\ loc.market_cap_display # PyStr(NA)

\* whether a field of a successful market-data response is missing
Missing(r, field) == field \notin DOMAIN r.body.v["market_data"].v

\* C10 as claimed: in a successful market-data response with any of the four
\* fields missing, each of price, volume and market cap is "N/A" exactly when
\* its own field is missing.
C10_FieldIndependence ==
    (pc = "category" /\ resp \in PartialMarketResponses) =>
        /\ loc.price_display = PyStr(NA) <=> Missing(resp, "current_price")
        /\ loc.volume_display = PyStr(NA) <=> Missing(resp, "total_volume")
        /\ loc.market_cap_display = PyStr(NA) <=> Missing(resp, "market_cap")

\* the spot price and the 24h change of a successful market-data response,
\* Absent when the field is missing
PriceField(r) ==
    IF Missing(r, "current_price") THEN Absent
    ELSE r.body.v["market_data"].v["current_price"].v["usd"]
ChangeField(r) ==
    IF Missing(r, "price_change_percentage_24h") THEN Absent
    ELSE r.body.v["market_data"].v["price_change_percentage_24h"]

\* the price text the specification describes
ExpectedPrice(p, ch) ==
    IF p = Absent THEN NA
    ELSE <<"$">> \o FormatFixed(p, 6, FALSE) \o
         (IF ch = Absent THEN <<>>
          ELSE IF IsNeg(ch)
               THEN <<" ", "(", DOWN, " ">> \o FormatFixed(ch, 2, FALSE)
                        \o <<"%", " ", "2", "4", "h", ")">>
               ELSE <<" ", "(", UP, " ", "+">> \o FormatFixed(ch, 2, FALSE)
                        \o <<"%", " ", "2", "4", "h", ")">>)

\* C11 as claimed: the price text is exactly "N/A", or "$" and the 6-decimal
\* price, followed by the signed 2-decimal change in " (... 24h)" when the
\* change is numeric; no other form is produced.
C11_PriceForms ==
    pc = "category" =>
        /\ loc.price_display.v = NA \/ Head(loc.price_display.v) = "$"
        /\ resp \in PartialMarketResponses =>
               loc.price_display.v = ExpectedPrice(PriceField(resp), ChangeField(resp))

\* C12 as claimed: within a cycle no two channel mutations (create voice
\* channel, rename, set permission) are issued one after another without the
\* 0.5 s sleep between them.
C12_Spacing == calls.burst <= 1

\* C13: no step removes a channel or a category or changes a channel's kind;
\* a step renames a channel only if it is a voice channel of the category
\* whose normalized name starts with one of the eight normalized prefixes;
\* only voice channels of the category get the connect-deny override; a
\* channel outside the category is left as it is; and the reconciler moves
\* no channel (one that leaves the category was moved by someone else).
C13_Frame ==
    [][ \A g \in Guilds :
          /\ categories'[g] >= categories[g]
          /\ Len(channels'[g]) >= Len(channels[g])
          /\ \A i \in 1..Len(channels[g]) :
                /\ channels'[g][i].kind = channels[g][i].kind
                /\ channels'[g][i].name # channels[g][i].name =>
                      /\ channels[g][i].kind = "voice" /\ channels[g][i].cat
                      /\ KeysOf(channels[g][i].name) # {}
                /\ channels'[g][i].private # channels[g][i].private =>
                      channels[g][i].kind = "voice" /\ channels[g][i].cat
                /\ ~channels[g][i].cat => channels'[g][i] = channels[g][i]
                /\ channels'[g][i].cat # channels[g][i].cat => i \in failed'.moved ]_vars

\* C13 witness: in g2 the hand-named price channel has been renamed, the
\* foreign voice channel General keeps its name and has the override, the
\* stage channel and the channel outside the category are as they were.
C13_Witness ==
    /\ channels["g2"][3].name # InitChannels["g2"][3].name
    /\ channels["g2"][1].name = InitChannels["g2"][1].name /\ channels["g2"][1].private
    /\ channels["g2"][2] = InitChannels["g2"][2]
    /\ channels["g2"][4] = InitChannels["g2"][4]

\* C14: a guild never has two categories of the name; a cycle looks the
\* category up once and calls create_category at most once, only when the
\* lookup found none, and no channel is looked up, created, renamed or locked
\* before the category is resolved.
C14_CategoryOnce ==
    /\ [](/\ \A g \in Guilds : categories[g] <= 1
          /\ calls.lookups <= 1 /\ calls.creates <= calls.lookups
          /\ (attempted # <<>> \/ permCalls # {} \/ pc \in {"update", "lock"}) =>
                (calls.lookups = 1 /\ categories[cur] = 1))
    /\ [][calls'.creates > calls.creates => categories[cur] = 0]_vars

\* C14 witness: a later cycle of g1, which began without the category, found
\* the category an earlier cycle created and reconciles without creating one.
C14_Witness ==
    /\ cur = "g1" /\ pc = "update" /\ ki = 5
    /\ calls.lookups = 1 /\ calls.creates = 0 /\ categories["g1"] = 1

\* what the specification has make_rpc_call return: the 'result' of a 200
\* response that is a JSON object holding one, None otherwise
RpcExpected(r) ==
    IF /\ r.kind = "http" /\ r.status = 200 /\ r.body.t = "dict"
       /\ "result" \in DOMAIN r.body.v
    THEN r.body.v["result"] ELSE None

\* C15 as claimed: when getdifficulty succeeds with a number, 0 included,
\* the difficulty value is that number (rendered as a string in the label),
\* not "N/A".
C15_DifficultyPassThrough ==
    (pc = "rpc_hashrate" /\ RpcExpected(resp).t \in {"int", "float"}) =>
        loc.difficulty_soterg = RpcExpected(resp)

\* C16: make_rpc_call returns None on a transport error, a non-200 status, a
\* body that is no JSON or no JSON object and an object without 'result',
\* and the value of 'result' otherwise; it never raises, so the RPC locals
\* are set from what it returns and all five requests are made whatever the
\* RPC calls met.
C16_RpcNeverRaises ==
    /\ pc \in {"rpc_hashrate", "rpc_block", "supply"} =>
          make_rpc_call(resp) = RpcExpected(resp)
    /\ pc = "rpc_hashrate" => loc.difficulty_soterg = OrNA(RpcExpected(resp))
    /\ pc = "rpc_block" => loc.hashrate_soterg = HashrateOf(RpcExpected(resp))
    /\ pc = "supply" => loc.block_count = OrNA(RpcExpected(resp))
    /\ pc = "category" => calls.requests = Requests

\* C16 witness: getnetworkhashps was answered 200 with JSON that is no
\* object; the hashrate is "N/A" and the cycle stands at the next request.
C16_Witness ==
    /\ pc = "rpc_block" /\ resp = Http(200, TRUE, PyList(<<>>))
    /\ loc.hashrate_soterg = PyStr(NA)

\* the locals each request sets, in the order of Requests
LocalsSetBy ==
    << {"difficulty_soterg"}, {"hashrate_soterg"}, {"block_count"}, {"supply"},
       {"price_display", "volume_display", "market_cap_display"} >>

\* the requests made when update_stats_channels stands at a fetch
SentAt ==
    [rpc_difficulty |-> 0, rpc_hashrate |-> 1, rpc_block |-> 2, supply |-> 3,
     market |-> 4, category |-> 5]

\* C17: in a cycle the five requests are sent once each, in order, none
\* again after a failure; all five are done before the category lookup and
\* before any channel is looked up, created, renamed or locked; a cycle
\* begins with no local set, and each local is set exactly when its request
\* of this cycle has been made.
C17_FetchThenMutate ==
    /\ calls.requests = SubSeq(Requests, 1, Len(calls.requests))
    /\ pc \in DOMAIN SentAt => Len(calls.requests) = SentAt[pc]
    /\ (calls.lookups > 0 \/ attempted # <<>> \/ permCalls # {} \/ calls.burst > 0
            \/ pc \in {"update", "lock", "return"}) => calls.requests = Requests
    /\ pc = "idle" => (loc = NoLocals /\ calls = NoCalls)
    /\ pc # "idle" =>
          \A i \in 1..Len(Requests) : \A l \in LocalsSetBy[i] :
              loc[l] # Unset <=> i <= Len(calls.requests)

\* C17 witness: in g1 the supply request failed and its label says so; the
\* cycle of g2 made its own five requests and reconciles its own supply.
C17_Witness ==
    /\ cur = "g2" /\ pc = "update" /\ calls.requests = Requests
    /\ loc.supply # PyStr(NA)
    /\ \E i \in 1..Len(channels["g1"]) :
          channels["g1"][i].name = CHANNEL_KEYS("supply") \o <<" ">> \o NA

RECURSIVE Pow10(_)
Pow10(n) == IF n = 0 THEN 1 ELSE 10 * Pow10(n - 1)

\* a supply text is <whole part, grouped by three>.<two digits>B SOTER
WellFormedSupply(text) ==
    /\ Len(text) >= Len(B_SOTER) + 4
    /\ SubSeq(text, Len(text) - Len(B_SOTER) + 1, Len(text)) = B_SOTER
    /\ LET body == SubSeq(text, 1, Len(text) - Len(B_SOTER))
           whole == SubSeq(body, 1, Len(body) - 3)
       IN  /\ body[Len(body) - 2] = "."
           /\ body[Len(body) - 1] \in DigitChars /\ body[Len(body)] \in DigitChars
           /\ whole[1] \in DigitChars
           /\ \A i \in 1..Len(whole) :
                 IF (Len(whole) - i + 1) % 4 = 0 THEN whole[i] = ","
                 ELSE whole[i] \in DigitChars

\* the number a supply text shows, in hundredths
SupplyCents(text) ==
    DigitsToNat(SelectSeq(SubSeq(text, 1, Len(text) - Len(B_SOTER)),
                          LAMBDA c : c \in DigitChars))

\* c hundredths is the number x divided by 10^9 once, rounded to 2 decimals
NearOnce(x, c) ==
    IF x.t = "int"
    THEN /\ c - 100 * x.g \in 0..214
         /\ Abs((c - 100 * x.g) * Pow10(7) - x.v) <= 5 * Pow10(6)
    ELSE /\ x.t = "float" /\ x.s <= 2 /\ c <= 2
         /\ Abs(c * Pow10(x.s + 7) - x.m) <= 5 * Pow10(x.s + 6)

\* C18: after the supply step, a response that was received and parsed, with
\* a coinsupply float() accepts, gives the raw value divided by 10^9 once,
\* to 2 decimals, grouped by three, followed by "B SOTER"; the raw value
\* 2,500,000,000,000 gives "2,500.00B SOTER"; a transport error, a body that
\* does not parse and a missing or unparsable coinsupply give "N/A".
C18_SupplyScaling ==
    pc = "market" =>
        /\ IF SupplyFailed(resp) THEN loc.supply = PyStr(NA)
           ELSE /\ WellFormedSupply(loc.supply.v)
                /\ NearOnce(PyFloatOf(resp.body.v["coinsupply"]), SupplyCents(loc.supply.v))
        /\ resp = GoodSupply =>
              loc.supply.v = <<"2",",","5","0","0",".","0","0","B"," ","S","O","T","E","R">>

\* C18 witness: the supply step has formatted the raw value 2,500,000,000,000.
C18_Witness ==
    /\ pc = "market" /\ resp = GoodSupply
    /\ resp.body.v["coinsupply"] = PyBig(2500, 0)
    /\ loc.supply # PyStr(NA)

\* C19: no normalized prefix is a prefix of another; every channel the bot
\* created belongs to exactly one key; and a step creates or renames a
\* channel only for the key it reconciles: the channel belonged to that key
\* alone before the rename and belongs to it alone after.
C19_KeyIsolation ==
    /\ [](/\ \A j \in Keys : \A k \in Keys \ {j} :
                ~StartsWith(target_norm[j], target_norm[k])
          /\ \A i \in 1..Len(channels[cur]) :
                channels[cur][i].by = "bot" =>
                    Cardinality(KeysOf(channels[cur][i].name)) = 1)
    /\ [][ \A i \in 1..Len(channels'[cur]) :
              IF i > Len(channels[cur])
              THEN KeysOf(channels'[cur][i].name) = {KeyOrder[ki]}
              ELSE channels'[cur][i].name # channels[cur][i].name =>
                      /\ KeysOf(channels[cur][i].name) = {KeyOrder[ki]}
                      /\ KeysOf(channels'[cur][i].name) = {KeyOrder[ki]} ]_vars

\* C19 witness: two passes on a guild that had no channel left eight
\* channels, with the display values of a cycle whose results were odd
\* (difficulty "abc", block count 0, a price without a spot price).
C19_Witness ==
    /\ run = 2 /\ hist.pre = <<>> /\ Len(channels[cur]) = Cardinality(Keys)
    /\ loc.difficulty_soterg = PyStr(<<"a", "b", "c">>)

====
